---- MODULE Spec2Model ----
(***************************************************************************)
(* Stock manager (src/stock_manager.py) over its JSON file                 *)
(* (src/file_handler.py) and its Product record (src/models.py).           *)
(*                                                                         *)
(* Representation.  A str is the sequence of its characters.  A float is   *)
(* the integer count of its halves (1 is 0.5, 2 is 1.0, 3 is 1.5), so that *)
(* int() of a float truncates and float() of an int does not.  An int is   *)
(* an integer.  A JSON value is a record with a tag t; a JSON number holds *)
(* its count of halves in h.                                               *)
(***************************************************************************)
EXTENDS Integers, Sequences, FiniteSets, TLC

VARIABLES productos, archivo, ultima, fallos

vars == <<productos, archivo, ultima, fallos>>

\* ---------------------------------------------------------------- bounds
MaxItems == 2
MaxFallos == 1

\* ------------------------------------------------- str methods of Python
Whitespace == {" "}
Digits == {"1", "2"}

RECURSIVE lstrip(_)
lstrip(s) ==
    IF s # <<>> /\ Head(s) \in Whitespace THEN lstrip(Tail(s)) ELSE s

RECURSIVE rstrip(_)
rstrip(s) ==
    IF s # <<>> /\ s[Len(s)] \in Whitespace
    THEN rstrip(SubSeq(s, 1, Len(s) - 1)) ELSE s

strip(s) == rstrip(lstrip(s))

isdigit(s) == s # <<>> /\ \A i \in DOMAIN s : s[i] \in Digits

\* str.lower()
lower(s) ==
    [k \in DOMAIN s |->
        CASE s[k] = "A" -> "a" [] s[k] = "B" -> "b" [] s[k] = "C" -> "c"
          [] s[k] = "M" -> "m" [] OTHER -> s[k]]

\* sub in s, for two str
en(sub, s) ==
    \E k \in 0..(Len(s) - Len(sub)) : SubSeq(s, k + 1, k + Len(sub)) = sub

DigitVal(c) == IF c = "1" THEN 1 ELSE 2

\* value of a string of decimal digits
RECURSIVE DecVal(_)
DecVal(s) ==
    IF s = <<>> THEN 0
    ELSE 10 * DecVal(SubSeq(s, 1, Len(s) - 1)) + DigitVal(s[Len(s)])

\* ------------------------------------------------------------ JSON values
JNum(h) == [t |-> "num", h |-> h, s |-> <<>>]
JStr(s) == [t |-> "str", h |-> 0, s |-> s]
JNull == [t |-> "null", h |-> 0, s |-> <<>>]
JMissing == [t |-> "missing", h |-> 0, s |-> <<>>]
\* the number json.load reads from Infinity or from 1e999: the float inf
JInf == [t |-> "inf", h |-> 0, s |-> <<>>]

\* the float inf in memory: above every finite price of the model
Infinito == 1000

\* float(x): a number as it is, a numeric string parsed, else an exception
float_raises(v) ==
    CASE v.t = "num" -> FALSE
      [] v.t = "inf" -> FALSE
      [] v.t = "str" -> ~isdigit(strip(v.s))
      [] OTHER -> TRUE

float_of(v) ==
    CASE v.t = "num" -> v.h
      [] v.t = "inf" -> Infinito
      [] OTHER -> 2 * DecVal(strip(v.s))

\* int(x): a number truncated toward zero, a string of digits parsed;
\* ValueError or TypeError otherwise, except for inf
int_raises(v) ==
    CASE v.t = "num" -> FALSE
      [] v.t = "inf" -> FALSE
      [] v.t = "str" -> ~isdigit(strip(v.s))
      [] OTHER -> TRUE

\* int(inf) raises OverflowError, which is no ValueError and no TypeError
int_overflows(v) == v.t = "inf"

int_of(v) ==
    IF v.t = "num"
    THEN (IF v.h >= 0 THEN v.h \div 2 ELSE 0 - ((0 - v.h) \div 2))
    ELSE DecVal(strip(v.s))

\* ---------------------------------------------------------------- Product
Product(codigo, nombre, categoria, precio, cantidad) ==
    [codigo |-> codigo, nombre |-> nombre, categoria |-> categoria,
     precio |-> precio, cantidad |-> cantidad]

to_dict(p) ==
    [codigo |-> JStr(p.codigo), nombre |-> JStr(p.nombre),
     categoria |-> JStr(p.categoria), precio |-> IF p.precio = Infinito THEN JInf ELSE JNum(p.precio),
     cantidad |-> JNum(2 * p.cantidad)]

\* KeyError on a missing key, ValueError/TypeError from float() and int()
from_dict_raises(data) ==
    \/ data.codigo.t = "missing"
    \/ data.nombre.t = "missing"
    \/ data.categoria.t = "missing"
    \/ data.precio.t = "missing"
    \/ float_raises(data.precio)
    \/ data.cantidad.t = "missing"
    \/ int_raises(data.cantidad)

\* OverflowError out of from_dict: every key present, the price coerced,
\* and int() of an infinite quantity
from_dict_overflows(data) ==
    ~from_dict_raises(data) /\ int_overflows(data.cantidad)

\* variant: the price coerced with int() instead of float()
from_dict_precio_entero(data) ==
    Product(data.codigo.s, data.nombre.s, data.categoria.s,
            2 * int_of(data.precio), int_of(data.cantidad))

from_dict(data) ==
    Product(data.codigo.s, data.nombre.s, data.categoria.s,
            float_of(data.precio), int_of(data.cantidad))

\* ------------------------------------------------------------ file_handler
Ausente == [kind |-> "absent", items |-> <<>>]
Corrupto == [kind |-> "corrupt", items |-> <<>>]
NoLista == [kind |-> "notlist", items |-> <<>>]
Lista(items) == [kind |-> "list", items |-> items]

\* the loop over datos: the inner except skips an element that raises
\* KeyError, ValueError or TypeError; any other exception leaves the loop
\* for the outer except, and what was appended so far is returned
RECURSIVE cargar_items(_)
cargar_items(datos) ==
    IF datos = <<>> THEN <<>>
    ELSE IF from_dict_raises(Head(datos)) THEN cargar_items(Tail(datos))
    ELSE IF from_dict_overflows(Head(datos)) THEN <<>>
    ELSE <<from_dict(Head(datos))>> \o cargar_items(Tail(datos))

cargar_productos(f) ==
    IF f.kind # "list" THEN <<>> ELSE cargar_items(f.items)

\* The outcomes of a save: "ok"; "open_fail", open() raises and the file is
\* untouched; "write_fail", open(..., 'w') has truncated the file and the
\* write raises, leaving a file that does not parse.
SaveOutcomes == {"ok", "open_fail", "write_fail"}

guardar_productos(ps, f, out) ==
    [ok |-> (out = "ok"),
     archivo |-> CASE out = "ok" -> Lista([i \in DOMAIN ps |-> to_dict(ps[i])])
                   [] out = "open_fail" -> f
                   [] OTHER -> Corrupto]

\* ----------------------------------------------------------- StockManager
\* list.remove(x): drops the first element equal to x (dataclass equality)
RECURSIVE remove(_, _)
remove(ps, x) ==
    IF ps = <<>> THEN <<>>
    ELSE IF Head(ps) = x THEN Tail(ps)
    ELSE <<Head(ps)>> \o remove(Tail(ps), x)

validar_codigo(codigo) == ~(codigo = <<>> \/ strip(codigo) = <<>>)

codigo_existe(ps, codigo) == \E i \in DOMAIN ps : ps[i].codigo = codigo

validar_nombre(nombre) ==
    IF nombre = <<>> \/ strip(nombre) = <<>> THEN FALSE
    ELSE IF isdigit(strip(nombre)) THEN FALSE
    ELSE TRUE

validar_categoria(categoria) == categoria # <<>> /\ strip(categoria) # <<>>

\* variant: a price of at least one unit required
validar_precio_desde_uno(precio) == precio >= 2

validar_precio(precio) == precio > 0

validar_cantidad(cantidad) == cantidad >= 0

\* index of the first product with the code, 0 for None
buscar_por_codigo(ps, codigo) ==
    IF \E i \in DOMAIN ps : ps[i].codigo = codigo
    THEN CHOOSE i \in DOMAIN ps :
            /\ ps[i].codigo = codigo
            /\ \A j \in 1..(i - 1) : ps[j].codigo # codigo
    ELSE 0

listar_productos(ps) == ps

RECURSIVE buscar_en_nombres(_, _)
buscar_en_nombres(ps, nombre_lower) ==
    IF ps = <<>> THEN <<>>
    ELSE IF en(nombre_lower, lower(Head(ps).nombre))
    THEN <<Head(ps)>> \o buscar_en_nombres(Tail(ps), nombre_lower)
    ELSE buscar_en_nombres(Tail(ps), nombre_lower)

buscar_por_nombre(ps, nombre) ==
    IF nombre = <<>> \/ strip(nombre) = <<>> THEN <<>>
    ELSE buscar_en_nombres(ps, strip(lower(nombre)))

\* the (success, message) of an operation, with the collection and the file
\* it leaves and the outcome of the save it made ("none" when it made none)
Resultado(ps, f, ok, msg, save) ==
    [productos |-> ps, archivo |-> f, ok |-> ok, msg |-> msg, save |-> save]

MsgCodigoVacio == "El codigo no puede estar vacio."
MsgCodigoExiste == "El codigo ya existe en el sistema."
MsgNombre == "El nombre no puede estar vacio o ser solo numeros."
MsgCategoria == "La categoria no puede estar vacia."
MsgPrecio == "El precio debe ser mayor a 0."
MsgCantidad == "La cantidad debe ser mayor o igual a 0."
MsgAgregado == "Producto agregado correctamente."
MsgErrorGuardarProducto == "Error al guardar el producto en el archivo."
MsgNoEncontrado == "Producto no encontrado."
MsgSinCambios == "No se especificaron cambios a realizar."
MsgModificado == "Producto modificado correctamente."
MsgErrorGuardarCambios == "Error al guardar los cambios en el archivo."
MsgEliminado == "Producto eliminado correctamente."

\* variant: the appended Product stays when the save fails
agregar_producto_sin_rollback(ps, f, codigo, nombre, categoria, precio, cantidad, out) ==
    IF ~validar_codigo(codigo) THEN Resultado(ps, f, FALSE, MsgCodigoVacio, "none")
    ELSE IF codigo_existe(ps, codigo) THEN Resultado(ps, f, FALSE, MsgCodigoExiste, "none")
    ELSE IF ~validar_nombre(nombre) THEN Resultado(ps, f, FALSE, MsgNombre, "none")
    ELSE IF ~validar_categoria(categoria) THEN Resultado(ps, f, FALSE, MsgCategoria, "none")
    ELSE IF ~validar_precio(precio) THEN Resultado(ps, f, FALSE, MsgPrecio, "none")
    ELSE IF ~validar_cantidad(cantidad) THEN Resultado(ps, f, FALSE, MsgCantidad, "none")
    ELSE LET nuevo_producto == Product(codigo, nombre, categoria, precio, cantidad)
             ps1 == Append(ps, nuevo_producto)
             g == guardar_productos(ps1, f, out)
         IN  IF g.ok THEN Resultado(ps1, g.archivo, TRUE, MsgAgregado, out)
             ELSE Resultado(ps1, g.archivo, FALSE, MsgErrorGuardarProducto, out)

agregar_producto(ps, f, codigo, nombre, categoria, precio, cantidad, out) ==
    IF ~validar_codigo(codigo) THEN Resultado(ps, f, FALSE, MsgCodigoVacio, "none")
    ELSE IF codigo_existe(ps, codigo) THEN Resultado(ps, f, FALSE, MsgCodigoExiste, "none")
    ELSE IF ~validar_nombre(nombre) THEN Resultado(ps, f, FALSE, MsgNombre, "none")
    ELSE IF ~validar_categoria(categoria) THEN Resultado(ps, f, FALSE, MsgCategoria, "none")
    ELSE IF ~validar_precio(precio) THEN Resultado(ps, f, FALSE, MsgPrecio, "none")
    ELSE IF ~validar_cantidad(cantidad) THEN Resultado(ps, f, FALSE, MsgCantidad, "none")
    ELSE LET nuevo_producto == Product(codigo, nombre, categoria, precio, cantidad)
             ps1 == Append(ps, nuevo_producto)
             g == guardar_productos(ps1, f, out)
         IN  IF g.ok THEN Resultado(ps1, g.archivo, TRUE, MsgAgregado, out)
             ELSE Resultado(remove(ps1, nuevo_producto), g.archivo, FALSE,
                            MsgErrorGuardarProducto, out)

\* an Optional argument: None, or Some(v)
None == [some |-> FALSE, v |-> 0]
Some(v) == [some |-> TRUE, v |-> v]

\* variant: the fields are restored when the save fails
modificar_producto_con_rollback(ps, f, codigo, precio, cantidad, out) ==
    LET i == buscar_por_codigo(ps, codigo)
    IN  IF i = 0 THEN Resultado(ps, f, FALSE, MsgNoEncontrado, "none")
        ELSE IF precio.some /\ ~validar_precio(precio.v)
             THEN Resultado(ps, f, FALSE, MsgPrecio, "none")
        ELSE LET ps1 == IF precio.some
                        THEN [ps EXCEPT ![i].precio = precio.v] ELSE ps
             IN  IF cantidad.some /\ ~validar_cantidad(cantidad.v)
                 THEN Resultado(ps1, f, FALSE, MsgCantidad, "none")
                 ELSE LET ps2 == IF cantidad.some
                                 THEN [ps1 EXCEPT ![i].cantidad = cantidad.v]
                                 ELSE ps1
                          cambios == precio.some \/ cantidad.some
                          g == guardar_productos(ps2, f, out)
                      IN  IF ~cambios
                          THEN Resultado(ps2, f, FALSE, MsgSinCambios, "none")
                          ELSE IF g.ok
                          THEN Resultado(ps2, g.archivo, TRUE, MsgModificado, out)
                          ELSE Resultado(ps, g.archivo, FALSE,
                                         MsgErrorGuardarCambios, out)

\* variant: the new quantity is given to every Product with the code
modificar_producto_todos(ps, f, codigo, precio, cantidad, out) ==
    LET i == buscar_por_codigo(ps, codigo)
    IN  IF i = 0 THEN Resultado(ps, f, FALSE, MsgNoEncontrado, "none")
        ELSE IF precio.some /\ ~validar_precio(precio.v)
             THEN Resultado(ps, f, FALSE, MsgPrecio, "none")
        ELSE LET ps1 == IF precio.some
                        THEN [ps EXCEPT ![i].precio = precio.v] ELSE ps
             IN  IF cantidad.some /\ ~validar_cantidad(cantidad.v)
                 THEN Resultado(ps1, f, FALSE, MsgCantidad, "none")
                 ELSE LET ps2 == IF cantidad.some
                                 THEN [j \in DOMAIN ps1 |->
                                         IF ps1[j].codigo = codigo
                                         THEN [ps1[j] EXCEPT !.cantidad = cantidad.v]
                                         ELSE ps1[j]]
                                 ELSE ps1
                          cambios == precio.some \/ cantidad.some
                          g == guardar_productos(ps2, f, out)
                      IN  IF ~cambios
                          THEN Resultado(ps2, f, FALSE, MsgSinCambios, "none")
                          ELSE IF g.ok
                          THEN Resultado(ps2, g.archivo, TRUE, MsgModificado, out)
                          ELSE Resultado(ps2, g.archivo, FALSE,
                                         MsgErrorGuardarCambios, out)

\* variant: the save is made before the check that something changed
modificar_producto_guarda_siempre(ps, f, codigo, precio, cantidad, out) ==
    LET i == buscar_por_codigo(ps, codigo)
    IN  IF i = 0 THEN Resultado(ps, f, FALSE, MsgNoEncontrado, "none")
        ELSE IF precio.some /\ ~validar_precio(precio.v)
             THEN Resultado(ps, f, FALSE, MsgPrecio, "none")
        ELSE LET ps1 == IF precio.some
                        THEN [ps EXCEPT ![i].precio = precio.v] ELSE ps
             IN  IF cantidad.some /\ ~validar_cantidad(cantidad.v)
                 THEN Resultado(ps1, f, FALSE, MsgCantidad, "none")
                 ELSE LET ps2 == IF cantidad.some
                                 THEN [ps1 EXCEPT ![i].cantidad = cantidad.v]
                                 ELSE ps1
                          cambios == precio.some \/ cantidad.some
                          g == guardar_productos(ps2, f, out)
                      IN  IF ~g.ok
                          THEN Resultado(ps2, g.archivo, FALSE,
                                         MsgErrorGuardarCambios, out)
                          ELSE IF ~cambios
                          THEN Resultado(ps2, g.archivo, FALSE, MsgSinCambios, out)
                          ELSE Resultado(ps2, g.archivo, TRUE, MsgModificado, out)

\* producto.precio = precio and producto.cantidad = cantidad act on the
\* object the list holds, so each assignment is already in the collection
\* when a later check returns
modificar_producto(ps, f, codigo, precio, cantidad, out) ==
    LET i == buscar_por_codigo(ps, codigo)
    IN  IF i = 0 THEN Resultado(ps, f, FALSE, MsgNoEncontrado, "none")
        ELSE IF precio.some /\ ~validar_precio(precio.v)
             THEN Resultado(ps, f, FALSE, MsgPrecio, "none")
        ELSE LET ps1 == IF precio.some
                        THEN [ps EXCEPT ![i].precio = precio.v] ELSE ps
             IN  IF cantidad.some /\ ~validar_cantidad(cantidad.v)
                 THEN Resultado(ps1, f, FALSE, MsgCantidad, "none")
                 ELSE LET ps2 == IF cantidad.some
                                 THEN [ps1 EXCEPT ![i].cantidad = cantidad.v]
                                 ELSE ps1
                          cambios == precio.some \/ cantidad.some
                          g == guardar_productos(ps2, f, out)
                      IN  IF ~cambios
                          THEN Resultado(ps2, f, FALSE, MsgSinCambios, "none")
                          ELSE IF g.ok
                          THEN Resultado(ps2, g.archivo, TRUE, MsgModificado, out)
                          ELSE Resultado(ps2, g.archivo, FALSE,
                                         MsgErrorGuardarCambios, out)

\* variant: the Product is put back at the front when the save fails
eliminar_producto_al_inicio(ps, f, codigo, out) ==
    LET i == buscar_por_codigo(ps, codigo)
    IN  IF i = 0 THEN Resultado(ps, f, FALSE, MsgNoEncontrado, "none")
        ELSE LET producto == ps[i]
                 ps1 == remove(ps, producto)
                 g == guardar_productos(ps1, f, out)
             IN  IF g.ok THEN Resultado(ps1, g.archivo, TRUE, MsgEliminado, out)
                 ELSE Resultado(<<producto>> \o ps1, g.archivo, FALSE,
                                MsgErrorGuardarCambios, out)

eliminar_producto(ps, f, codigo, out) ==
    LET i == buscar_por_codigo(ps, codigo)
    IN  IF i = 0 THEN Resultado(ps, f, FALSE, MsgNoEncontrado, "none")
        ELSE LET producto == ps[i]
                 ps1 == remove(ps, producto)
                 g == guardar_productos(ps1, f, out)
             IN  IF g.ok THEN Resultado(ps1, g.archivo, TRUE, MsgEliminado, out)
                 ELSE Resultado(Append(ps1, producto), g.archivo, FALSE,
                                MsgErrorGuardarCambios, out)

\* ------------------------------------------------------------------ inputs
\* arguments of agregar_producto: a code that is blank or not, and the
\* other four fields all valid, one of them invalid, or all of them invalid
Codigos == {<<" ">>, <<"A">>, <<"B">>}
DatosValidos ==
    [nombre |-> <<"M">>, categoria |-> <<"C">>, precio |-> 1, cantidad |-> 0]
Datos ==
    {DatosValidos,
     [DatosValidos EXCEPT !.nombre = <<"1", "2">>],
     [DatosValidos EXCEPT !.categoria = <<" ">>],
     [DatosValidos EXCEPT !.precio = 0],
     [DatosValidos EXCEPT !.cantidad = 0 - 1],
     [nombre |-> <<" ">>, categoria |-> <<>>, precio |-> 0 - 1,
      cantidad |-> 0 - 1]}
\* arguments of modificar_producto and eliminar_producto
CodigosBuscados == {<<"A">>, <<"B">>}
NuevosPrecios == {None, Some(0), Some(2)}
NuevasCantidades == {None, Some(0 - 1), Some(0)}
\* arguments of buscar_por_nombre
NombresBuscados == {<<" ">>, <<"m", " ">>}

\* elements a file's list may hold
ItemValido ==
    [codigo |-> JStr(<<"A">>), nombre |-> JStr(<<"M">>),
     categoria |-> JStr(<<"C">>), precio |-> JStr(<<" ", "1">>),
     cantidad |-> JNum(3)]
ItemInvalido ==
    [codigo |-> JStr(<<" ">>), nombre |-> JStr(<<"1", "2">>),
     categoria |-> JStr(<<>>), precio |-> JNum(0), cantidad |-> JNum(0 - 2)]
ItemSinCampo == [ItemValido EXCEPT !.cantidad = JMissing]
Items == {ItemValido, ItemInvalido, ItemSinCampo}

SeqsUpTo(S, n) == UNION {[1..k -> S] : k \in 0..n}

Archivos ==
    {Ausente, Corrupto, NoLista} \cup {Lista(its) : its \in SeqsUpTo(Items, MaxItems)}

\* ------------------------------------------------------------ state machine
\* ultima: the last operation, its arguments, what it returned (ret holds the
\* Products a read returned), the save it made, and the collection and the
\* file it started from
Registro(op, codigo, nombre, categoria, precio, cantidad, r) ==
    [op |-> op, codigo |-> codigo, nombre |-> nombre, categoria |-> categoria,
     precio |-> precio, cantidad |-> cantidad,
     ok |-> r.ok, msg |-> r.msg, save |-> r.save, ret |-> <<>>,
     antes |-> productos, archivo_antes |-> archivo]

RegistroLectura(op, codigo, nombre, ret) ==
    [op |-> op, codigo |-> codigo, nombre |-> nombre, categoria |-> <<>>,
     precio |-> None, cantidad |-> None,
     ok |-> TRUE, msg |-> "", save |-> "none", ret |-> ret,
     antes |-> productos, archivo_antes |-> archivo]

\* the saves that may fail are counted, up to MaxFallos
Salidas == IF fallos < MaxFallos THEN SaveOutcomes ELSE {"ok"}

Contar(r) == fallos' = IF r.save \in {"open_fail", "write_fail"} THEN fallos + 1 ELSE fallos

\* StockManager(): the collection is what cargar_productos() returns
Init ==
    /\ archivo \in Archivos
    /\ productos = cargar_productos(archivo)
    /\ ultima = [op |-> "init", codigo |-> <<>>, nombre |-> <<>>,
                 categoria |-> <<>>, precio |-> None, cantidad |-> None,
                 ok |-> TRUE, msg |-> "", save |-> "none", ret |-> <<>>,
                 antes |-> <<>>, archivo_antes |-> archivo]
    /\ fallos = 0

Agregar ==
    \E codigo \in Codigos, d \in Datos, out \in Salidas :
        LET r == agregar_producto(productos, archivo, codigo, d.nombre,
                                  d.categoria, d.precio, d.cantidad, out)
        IN  /\ productos' = r.productos
            /\ archivo' = r.archivo
            /\ Contar(r)
            /\ ultima' = Registro("add", codigo, d.nombre, d.categoria,
                                  Some(d.precio), Some(d.cantidad), r)

Modificar ==
    \E codigo \in CodigosBuscados, precio \in NuevosPrecios,
       cantidad \in NuevasCantidades, out \in Salidas :
        LET r == modificar_producto(productos, archivo, codigo, precio,
                                    cantidad, out)
        IN  /\ productos' = r.productos
            /\ archivo' = r.archivo
            /\ Contar(r)
            /\ ultima' = Registro("update", codigo, <<>>, <<>>, precio,
                                  cantidad, r)

Eliminar ==
    \E codigo \in CodigosBuscados, out \in Salidas :
        LET r == eliminar_producto(productos, archivo, codigo, out)
        IN  /\ productos' = r.productos
            /\ archivo' = r.archivo
            /\ Contar(r)
            /\ ultima' = Registro("delete", codigo, <<>>, <<>>, None, None, r)

\* ------------------------------------------------- cargar_productos alone
MaxCarga == 3

ItemOtro ==
    [codigo |-> JStr(<<"B">>), nombre |-> JStr(<<"M">>),
     categoria |-> JStr(<<"C">>), precio |-> JInf, cantidad |-> JStr(<<"2">>)]
ItemMalTipo == [ItemValido EXCEPT !.precio = JNull]
ItemMalValor == [ItemValido EXCEPT !.cantidad = JStr(<<"M">>)]
ItemDesborde == [ItemValido EXCEPT !.cantidad = JInf]
ItemsCarga ==
    {ItemValido, ItemOtro, ItemInvalido, ItemSinCampo, ItemMalTipo,
     ItemMalValor, ItemDesborde}

ArchivosCarga ==
    {Ausente, Corrupto, NoLista}
        \cup {Lista(its) : its \in SeqsUpTo(ItemsCarga, MaxCarga)}

SinOperacion ==
    [op |-> "none", codigo |-> <<>>, nombre |-> <<>>, categoria |-> <<>>,
     precio |-> None, cantidad |-> None,
     ok |-> TRUE, msg |-> "", save |-> "none", ret |-> <<>>,
     antes |-> <<>>, archivo_antes |-> Ausente]

InitCarga ==
    /\ archivo \in ArchivosCarga
    /\ productos = <<>>
    /\ ultima = SinOperacion
    /\ fallos = 0

Cargar ==
    /\ ultima.op = "none"
    /\ productos' = cargar_productos(archivo)
    /\ ultima' = [SinOperacion EXCEPT !.op = "load", !.archivo_antes = archivo]
    /\ UNCHANGED <<archivo, fallos>>

NextCarga == Cargar

SpecCarga == InitCarga /\ [][NextCarga]_vars

\* the three reads assign nothing and call no save
Listar ==
    /\ ultima' = RegistroLectura("list", <<>>, <<>>, listar_productos(productos))
    /\ UNCHANGED <<productos, archivo, fallos>>

BuscarPorCodigo ==
    \E codigo \in Codigos :
        LET i == buscar_por_codigo(productos, codigo)
        IN  /\ ultima' = RegistroLectura("find_code", codigo, <<>>,
                              IF i = 0 THEN <<>> ELSE <<productos[i]>>)
            /\ UNCHANGED <<productos, archivo, fallos>>

BuscarPorNombre ==
    \E nombre \in NombresBuscados :
        /\ ultima' = RegistroLectura("find_name", <<>>, nombre,
                          buscar_por_nombre(productos, nombre))
        /\ UNCHANGED <<productos, archivo, fallos>>

Next ==
    \/ Agregar \/ Modificar \/ Eliminar
    \/ Listar \/ BuscarPorCodigo \/ BuscarPorNombre

Spec == Init /\ [][Next]_vars

\* ------------------------------------------- behaviours where no save fails
\* the file is absent or is what an earlier save wrote, and the failed saves
\* allowed are used up
ArchivosGuardados ==
    {Ausente} \cup
        {guardar_productos(cargar_productos(f), f, "ok").archivo : f \in Archivos}

InitGuardado ==
    /\ archivo \in ArchivosGuardados
    /\ productos = cargar_productos(archivo)
    /\ ultima = [op |-> "init", codigo |-> <<>>, nombre |-> <<>>,
                 categoria |-> <<>>, precio |-> None, cantidad |-> None,
                 ok |-> TRUE, msg |-> "", save |-> "none", ret |-> <<>>,
                 antes |-> <<>>, archivo_antes |-> archivo]
    /\ fallos = MaxFallos

SpecGuardado == InitGuardado /\ [][Next]_vars

\* ------------------------------------------------------------- properties
Fallas == {"open_fail", "write_fail"}

\* the field predicates of a Product, stated on the characters and numbers
Blanco(s) == \A k \in DOMAIN s : s[k] = " "
SoloDigitos(s) == s # <<>> /\ \A k \in DOMAIN s : s[k] \in {"1", "2"}
CamposValidos(p) ==
    /\ ~Blanco(p.codigo)
    /\ ~Blanco(p.nombre) /\ ~SoloDigitos(strip(p.nombre))
    /\ ~Blanco(p.categoria)
    /\ p.precio > 0
    /\ p.cantidad >= 0

\* position of the first product of ps with the code c (0 when there is none)
Primero(ps, c) ==
    IF \A k \in DOMAIN ps : ps[k].codigo # c THEN 0
    ELSE CHOOSE k \in DOMAIN ps :
            ps[k].codigo = c /\ \A m \in DOMAIN ps : ps[m].codigo = c => k <= m

SinPosicion(ps, k) == SubSeq(ps, 1, k - 1) \o SubSeq(ps, k + 1, Len(ps))

\* C1: the collection holds at most one Product per code, whatever file the
\* manager was constructed from.
C1_CodigosUnicos ==
    \A i, j \in DOMAIN productos :
        productos[i].codigo = productos[j].codigo => i = j

\* C2: an update that fails on the price or the quantity rule leaves every
\* Product of the collection as it was before the call.
C2_ModificarTodoONada ==
    (ultima.op = "update" /\ ~ultima.ok /\ ultima.msg \in {MsgPrecio, MsgCantidad})
        => productos = ultima.antes

\* C3: every Product of the collection, and every Product of a file written
\* by a save, satisfies the five field predicates.
C3_CamposValidos ==
    /\ \A i \in DOMAIN productos : CamposValidos(productos[i])
    /\ ultima.save = "ok" =>
          \A i \in DOMAIN archivo.items :
              /\ ~from_dict_raises(archivo.items[i])
              /\ CamposValidos(from_dict(archivo.items[i]))

\* C4: after an add, update or delete that returns success, loading the
\* file yields the collection: same Products, same values, same order.
C4_IdaYVuelta ==
    (ultima.op \in {"add", "update", "delete"} /\ ultima.ok)
        => cargar_productos(archivo) = productos

C4_Testigo ==
    /\ ultima.op = "update" /\ ultima.ok
    /\ Len(productos) >= 2
    /\ \E i \in DOMAIN productos : productos[i].precio = 1

\* C5: an add that passes every validation and whose save fails returns
\* failure and leaves the collection the sequence it was before the call.
C5_AgregarRevierte ==
    (ultima.op = "add" /\ ultima.save \in Fallas)
        => /\ ~ultima.ok
           /\ ultima.msg = MsgErrorGuardarProducto
           /\ productos = ultima.antes

C5_Testigo ==
    /\ ultima.op = "add" /\ ultima.save \in Fallas
    /\ Len(ultima.antes) >= 1
    /\ ~codigo_existe(ultima.antes, ultima.codigo)

\* C6: a delete that finds the code and whose save fails returns failure and
\* leaves the Products it started from, the first one with the code moved to
\* the end and the others in their order.
C6_EliminarRevierteAlFinal ==
    (ultima.op = "delete" /\ ultima.save \in Fallas)
        => LET k == Primero(ultima.antes, ultima.codigo)
           IN  /\ ~ultima.ok
               /\ k # 0
               /\ productos = Append(SinPosicion(ultima.antes, k), ultima.antes[k])

C6_Testigo ==
    /\ ultima.op = "delete" /\ ultima.save \in Fallas
    /\ Len(ultima.antes) >= 2
    /\ productos # ultima.antes

\* the Product at position k of ps holds the values an update supplied
TieneLoPedido(ps, k) ==
    /\ ultima.precio.some => ps[k].precio = ultima.precio.v
    /\ ultima.cantidad.some => ps[k].cantidad = ultima.cantidad.v

\* C7 as stated: an update with valid fields whose save fails returns
\* failure, keeps the new values in memory, and the file still holds what
\* it held before the call.
C7_ArchivoIntacto ==
    (ultima.op = "update" /\ ultima.save \in Fallas)
        => /\ ~ultima.ok
           /\ TieneLoPedido(productos, Primero(ultima.antes, ultima.codigo))
           /\ archivo = ultima.archivo_antes

\* C7 amended: an update with valid fields whose save fails returns failure
\* and keeps the new values in memory; the file still holds what it held
\* before the call when the save failed on opening it, and is left
\* unreadable (it loads as empty) when the save failed after opening it.
C7_ModificarSinRollback ==
    (ultima.op = "update" /\ ultima.save \in Fallas)
        => LET k == Primero(ultima.antes, ultima.codigo)
           IN  /\ ~ultima.ok
               /\ ultima.msg = MsgErrorGuardarCambios
               /\ k # 0
               /\ TieneLoPedido(productos, k)
               /\ ultima.save = "open_fail" => archivo = ultima.archivo_antes
               /\ ultima.save = "write_fail" =>
                     archivo.kind = "corrupt" /\ cargar_productos(archivo) = <<>>

C7_Testigo ==
    /\ ultima.op = "update" /\ ultima.save = "open_fail"
    /\ productos # ultima.antes
    /\ cargar_productos(archivo) = ultima.antes

\* the message of the first rule, in the order code non-empty, code unique,
\* name, category, price, quantity, that the arguments of the add violate
PrimeraViolada ==
    CASE Blanco(ultima.codigo) -> MsgCodigoVacio
      [] \E k \in DOMAIN ultima.antes : ultima.antes[k].codigo = ultima.codigo
            -> MsgCodigoExiste
      [] Blanco(ultima.nombre) \/ SoloDigitos(strip(ultima.nombre)) -> MsgNombre
      [] Blanco(ultima.categoria) -> MsgCategoria
      [] ultima.precio.v <= 0 -> MsgPrecio
      [] ultima.cantidad.v < 0 -> MsgCantidad
      [] OTHER -> ""

\* C8: an add whose arguments violate a rule returns failure with the
\* message of the first violated rule, makes no save and leaves the
\* collection unchanged; a code equal to an existing Product's code always
\* yields the uniqueness failure.
C8_AgregarValidaEnOrden ==
    ultima.op = "add" =>
        /\ PrimeraViolada # "" =>
              /\ ~ultima.ok
              /\ ultima.msg = PrimeraViolada
              /\ ultima.save = "none"
              /\ productos = ultima.antes
        /\ (\E k \in DOMAIN ultima.antes : ultima.antes[k].codigo = ultima.codigo)
              => ultima.msg = MsgCodigoExiste

\* C9: an add of valid arguments with a new code whose save succeeds returns
\* success, and the search by that code finds at the end of the collection
\* a Product whose five fields equal the arguments.
C9_AgregarYBuscar ==
    (ultima.op = "add" /\ PrimeraViolada = "" /\ ultima.save # "open_fail"
         /\ ultima.save # "write_fail")
        => LET k == buscar_por_codigo(productos, ultima.codigo)
           IN  /\ ultima.ok
               /\ ultima.save = "ok"
               /\ Len(productos) = Len(ultima.antes) + 1
               /\ k = Len(productos)
               /\ SubSeq(productos, 1, k - 1) = ultima.antes
               /\ productos[k].codigo = ultima.codigo
               /\ productos[k].nombre = ultima.nombre
               /\ productos[k].categoria = ultima.categoria
               /\ productos[k].precio = ultima.precio.v
               /\ productos[k].cantidad = ultima.cantidad.v

C9_Testigo ==
    /\ ultima.op = "add" /\ ultima.ok
    /\ Len(productos) >= 2
    /\ productos[Len(productos)].codigo = <<"B">>

\* C10: a successful update changes only the supplied fields of the first
\* Product with the code; its other fields, every other Product, the order
\* and the length of the collection are as before.
C10_ModificarSoloLoPedido ==
    (ultima.op = "update" /\ ultima.ok)
        => LET k == Primero(ultima.antes, ultima.codigo)
               a == ultima.antes
           IN  /\ k # 0
               /\ ultima.precio.some \/ ultima.cantidad.some
               /\ Len(productos) = Len(a)
               /\ \A j \in DOMAIN a : j # k => productos[j] = a[j]
               /\ productos[k].codigo = a[k].codigo
               /\ productos[k].nombre = a[k].nombre
               /\ productos[k].categoria = a[k].categoria
               /\ productos[k].precio =
                     IF ultima.precio.some THEN ultima.precio.v ELSE a[k].precio
               /\ productos[k].cantidad =
                     IF ultima.cantidad.some THEN ultima.cantidad.v
                     ELSE a[k].cantidad

C10_Testigo ==
    /\ ultima.op = "update" /\ ultima.ok
    /\ ultima.precio.some /\ ~ultima.cantidad.some
    /\ Len(productos) >= 2
    /\ productos # ultima.antes

\* the last operation is one that has nothing to change: a read, an update
\* with neither field supplied, or an update or delete of an absent code
NadaQueCambiar ==
    \/ ultima.op \in {"list", "find_code", "find_name"}
    \/ ultima.op = "update" /\ ~ultima.precio.some /\ ~ultima.cantidad.some
    \/ ultima.op \in {"update", "delete"}
          /\ \A k \in DOMAIN ultima.antes : ultima.antes[k].codigo # ultima.codigo

\* C11: an operation that has nothing to change makes no save and leaves the
\* collection and the file as they were; list returns the collection, so two
\* lists with no mutation between them return equal sequences.
C11_SinCambioNoGuarda ==
    /\ NadaQueCambiar =>
          /\ ultima.save = "none"
          /\ productos = ultima.antes
          /\ archivo = ultima.archivo_antes
    /\ ultima.op = "list" => ultima.ret = ultima.antes

C11_Testigo ==
    /\ ultima.op = "update" /\ ~ultima.precio.some /\ ~ultima.cantidad.some
    /\ \E k \in DOMAIN ultima.antes : ultima.antes[k].codigo = ultima.codigo
    /\ cargar_productos(archivo) # productos

\* an element deserializes: its five fields are there, its price is a number
\* or a string of digits, its quantity is a finite number or a string of
\* digits
Deserializa(item) ==
    /\ item.codigo.t = "str" /\ item.nombre.t = "str" /\ item.categoria.t = "str"
    /\ \/ item.precio.t \in {"num", "inf"}
       \/ item.precio.t = "str" /\ SoloDigitos(strip(item.precio.s))
    /\ \/ item.cantidad.t = "num"
       \/ item.cantidad.t = "str" /\ SoloDigitos(strip(item.cantidad.s))

RECURSIVE LosQueDeserializan(_)
LosQueDeserializan(items) ==
    IF items = <<>> THEN <<>>
    ELSE IF Deserializa(Head(items))
    THEN <<from_dict(Head(items))>> \o LosQueDeserializan(Tail(items))
    ELSE LosQueDeserializan(Tail(items))

\* C12: load of a file whose top level is a list returns the elements that
\* deserialize, in file order, skipping each of the others; it returns the
\* empty sequence for a file that is absent, does not parse or is no list.
C12_CargaExacta ==
    ultima.op = "load" =>
        productos = IF archivo.kind = "list"
                    THEN LosQueDeserializan(archivo.items) ELSE <<>>

\* C13: the collection equals what the file holds, same Products, values and
\* order, unless an update whose save failed has happened since the last
\* successful save: the two are equal at the start, and a step that is not
\* an update whose save fails never takes them from equal to different.
C13_MemoriaIgualArchivo ==
    /\ cargar_productos(archivo) = productos
    /\ [][(/\ cargar_productos(archivo) = productos
           /\ ~(ultima'.op = "update" /\ ultima'.save \in Fallas))
             => cargar_productos(archivo') = productos']_vars

\* C14: after a delete that returns success the search by the code finds
\* nothing, the collection is one shorter, and the remaining Products keep
\* their order.
C14_EliminadoNoSeEncuentra ==
    (ultima.op = "delete" /\ ultima.ok)
        => LET k == Primero(ultima.antes, ultima.codigo)
           IN  /\ k # 0
               /\ buscar_por_codigo(productos, ultima.codigo) = 0
               /\ Len(productos) = Len(ultima.antes) - 1
               /\ productos = SinPosicion(ultima.antes, k)
====
